---- MODULE Spec2Model ----
(***************************************************************************)
(* HabitSphere (src/app.py): a Flask habit tracker.  The state is the      *)
(* database (users, habits with their entries, badges), the login session  *)
(* of every client, the wall clock and the requests in flight.  app.run    *)
(* serves requests on threads, so a handler is one action per database     *)
(* access and per reading of the clock: a request stays in flight, with    *)
(* its local variables, until its next statement runs, and the requests    *)
(* of other clients are served and the clock advances meanwhile.  Two      *)
(* accesses share a step only where no other request can come between      *)
(* them observably: the lookup of the habit row with the query after it    *)
(* (a habit row is never changed or deleted), and a commit with the        *)
(* redirect after it.  A commit that inserts an entry is two steps: the    *)
(* flush reads the clock for the date of the row, and the row is in the    *)
(* table when the commit has ended.  The last HTTP response is kept so     *)
(* that the handlers can be observed.                                      *)
(*                                                                         *)
(* Time.  A datetime is an integer number of ticks; a day has TicksPerDay  *)
(* ticks, so a timestamp t lies on calendar day t \div TicksPerDay at time *)
(* of day t % TicksPerDay.  Day 0 is Monday 2019-12-30, the first day of   *)
(* ISO week 1 of 2020.  Free-text columns (habit name, description, entry  *)
(* notes, badge description) are never read by a handler and are left out. *)
(***************************************************************************)
EXTENDS Integers, Sequences, FiniteSets, TLC

VARIABLES users, session, habits, badges, now, req, response

vars == <<users, session, habits, badges, now, req, response>>

(***************************** bounds **************************************)
\* ticks per calendar day (the granularity of the time of day)
TicksPerDay == 2
\* how many ticks the clock may advance after the initial state
MaxTicks == 2
\* rows of the habit table
MaxHabits == 2
\* entries logged after the initial state, over all habits
MaxNewEntries == 2
\* length of the freely chosen entry lists (SmallLists)
MaxLen == 3
\* days back from today the entries of SmallLists may lie
MaxBack == 3

(************************ program constants ********************************)
WeekStreak == 7
MonthStreak == 30
MinEntries == 7
WindowLen == 7
RateDays == 30
DailyPeriods == 30
WeekBuckets == 12
n_estimators == 100

(****************************** calendar ***********************************)
\* datetime.date(): the calendar day of a timestamp
DateOf(t) == t \div TicksPerDay

\* timedelta.days of a difference of two datetimes: whole days, floored
Days(delta) == delta \div TicksPerDay

\* timedelta(days=n)
timedelta(n) == n * TicksPerDay

\* timedelta.total_seconds() / 3600 of a difference of two datetimes
Hours(delta) == (delta * 24) \div TicksPerDay

\* datetime.weekday(): Monday is 0
weekday(t) == DateOf(t) % 7

\* the Gregorian year of day z, counted in days from 1970-01-01 (years of
\* 365 days, leap years every 4th year but not every 100th, but every 400th;
\* the count runs from 1 March of year 0)
YearOf(z) ==
  LET era == (z + 719468) \div 146097
      doe == (z + 719468) - era * 146097
      yoe == (doe - doe \div 1460 + doe \div 36524 - doe \div 146096) \div 365
      doy == doe - (365 * yoe + yoe \div 4 - yoe \div 100)
  IN  yoe + era * 400 + (IF doy >= 306 THEN 1 ELSE 0)

\* 1 January of year y, in days from 1970-01-01
FirstOfYear(y) ==
  LET era == (y - 1) \div 400
      yoe == (y - 1) - era * 400
  IN  era * 146097 + yoe * 365 + yoe \div 4 - yoe \div 100 + 306 - 719468

\* datetime.isocalendar()[1]: the ISO week number, not year-qualified.  The
\* week of a day is numbered within the year of its Thursday, from 1 for the
\* week of the first Thursday of that year; day 0 is day 18260 from
\* 1970-01-01.
isoweek(t) ==
  LET thursday == 18260 + DateOf(t) - (DateOf(t) % 7) + 3
  IN  (thursday - FirstOfYear(YearOf(thursday))) \div 7 + 1

(****************************** helpers ************************************)
RECURSIVE Insert(_, _)
\* insert x into the descending sequence s
Insert(x, s) ==
  IF s = <<>> THEN <<x>>
  ELSE IF x >= Head(s) THEN <<x>> \o s
  ELSE <<Head(s)>> \o Insert(x, Tail(s))

RECURSIVE SortedDesc(_)
\* sorted(..., reverse=True)
SortedDesc(s) == IF s = <<>> THEN <<>> ELSE Insert(Head(s), SortedDesc(Tail(s)))

(******************************* Habit *************************************)
RECURSIVE StreakLoopContinue(_, _, _)
\* the loop without its break: every adjacent pair one day apart counts
StreakLoopContinue(entries, i, streak) ==
  IF i > Len(entries) - 1 THEN streak
  ELSE IF Days(entries[i] - entries[i+1]) = 1
       THEN StreakLoopContinue(entries, i + 1, streak + 1)
       ELSE StreakLoopContinue(entries, i + 1, streak)

RECURSIVE StreakLoop(_, _, _)
\* for i in range(len(entries)-1): if (entries[i]-entries[i+1]).days == 1:
\* streak += 1 else: break      (i is 1-based here)
StreakLoop(entries, i, streak) ==
  IF i > Len(entries) - 1 THEN streak
  ELSE IF Days(entries[i] - entries[i+1]) = 1
       THEN StreakLoop(entries, i + 1, streak + 1)
       ELSE streak

\* Habit.current_streak over the dates of the habit's entries
current_streak(dates) ==
  LET entries == SortedDesc(dates)
  IN  IF entries = <<>> THEN 0 ELSE StreakLoop(entries, 1, 1)

(****************************** badges *************************************)
\* a Badge row
Badge(name, user_id) == [name |-> name, user_id |-> user_id]

\* the streak test with >= in place of ==
StreakBadgesAtLeast(streak, user_id) ==
  IF streak >= MonthStreak THEN <<Badge("Monthly Master", user_id)>>
  ELSE IF streak >= WeekStreak THEN <<Badge("Week Warrior", user_id)>>
  ELSE <<>>

\* log_entry: if streak == 7: add "Week Warrior" elif streak == 30: add
\* "Monthly Master"; the rows added to the session
StreakBadges(streak, user_id) ==
  IF streak = WeekStreak THEN <<Badge("Week Warrior", user_id)>>
  ELSE IF streak = MonthStreak THEN <<Badge("Monthly Master", user_id)>>
  ELSE <<>>

\* Badge.query.filter_by(user_id=..., name=...) as a row count
BadgeCount(bs, user_id, name) ==
  Cardinality({i \in DOMAIN bs : bs[i].user_id = user_id /\ bs[i].name = name})

(****************************** predict ************************************)
\* for i in range(len(dates)-7): the window start positions, 1-based
WindowStarts(dates) == 1 .. (Len(dates) - WindowLen)

\* week_entries = dates[i:i+7]
week_entries(dates, i) == SubSeq(dates, i, i + WindowLen - 1)

\* next_day: some entry lies on the calendar date after the window's last
next_day(dates, week) ==
  \E k \in DOMAIN dates :
     DateOf(week[Len(week)] + timedelta(1)) = DateOf(dates[k])

\* the inner loop of predict_success over week_entries, in list order
window_streak(week) == StreakLoop(week, 1, 1)

\* one row of streak_data
features(week) ==
  [streak |-> window_streak(week),
   weekday |-> weekday(week[Len(week)]),
   hours |-> Hours(week[Len(week)] - week[Len(week) - 1])]

\* streak_data, as a function of the window start
streak_data(dates) ==
  [i \in WindowStarts(dates) |-> features(week_entries(dates, i))]

\* success_data, as a function of the window start
success_data(dates) ==
  [i \in WindowStarts(dates) |->
     IF next_day(dates, week_entries(dates, i)) THEN 1 ELSE 0]

\* the threshold test with 6 in place of 7
TooFewEntriesSix(dates) == Len(dates) < MinEntries - 1

\* if len(entries) < 7
TooFewEntries(dates) == Len(dates) < MinEntries

\* What predict_success computes from the entries.  RandomForestClassifier
\* fitted on labels of one class only has a single column in predict_proba,
\* so [0][1] raises IndexError.
predict_outcome(dates) ==
  IF TooFewEntries(dates) THEN "need_more_data"
  ELSE IF WindowStarts(dates) = {} THEN "need_consecutive_data"
  ELSE IF {success_data(dates)[i] : i \in WindowStarts(dates)} = {0, 1}
       THEN "probability"
       ELSE "index_error"

\* the values predict_proba(...)[0][1] may return when both classes occur
\* among the labels: the share of the n_estimators trees, each fitted on
\* its own random resample of the rows, that put the query in class 1.  The
\* value k stands for the text "k.0%" that {:.1%} makes of k / 100.
Percentages == 0 .. n_estimators

(***************************** analytics ***********************************)
\* recent_entries = [d for d in dates if d >= thirty_days_ago]
recent_entries(dates, t) ==
  {i \in DOMAIN dates : dates[i] >= t - timedelta(RateDays)}

\* completion_rate = len(recent_entries) / 30.0, kept as a fraction
completion_rate(dates, t) ==
  [num |-> Cardinality(recent_entries(dates, t)), den |-> RateDays]

\* daily_counts: value_counts of the entry dates reindexed over
\* pd.date_range(end=today, periods=30)
daily_counts(dates, t) ==
  [d \in (DateOf(t) - DailyPeriods + 1) .. DateOf(t) |->
     Cardinality({i \in DOMAIN dates : DateOf(dates[i]) = d})]

\* week_range = range(current_week - 11, current_week + 1)
week_range(t) == (isoweek(t) - WeekBuckets + 1) .. isoweek(t)

\* weekly_counts: value_counts of the entries' ISO weeks reindexed over
\* week_range
weekly_counts(dates, t) ==
  [w \in week_range(t) |->
     Cardinality({i \in DOMAIN dates : isoweek(dates[i]) = w})]


(******************************* state *************************************)
Usernames == {"a", "b"}
Passwords == {1, 2}
NewPasswords == {1}
Methods == {"GET", "POST"}
HabitIds == 1 .. MaxHabits

\* the browsers that send requests; each has its own session cookie and one
\* request in flight at most, and the server threads serve them side by side
Clients == {1, 2}

\* generate_password_hash / check_password_hash: the hash opens only with
\* the password it was made from
generate_password_hash(password) == <<"hash", password>>
check_password_hash(hash, password) == hash = <<"hash", password>>

\* a User row; its id is its position in users
User(username, password) ==
  [username |-> username, password_hash |-> generate_password_hash(password)]

\* a Habit row with the dates of its HabitEntry rows in insertion order; its
\* id is its position in habits
Habit(user_id, entries) == [user_id |-> user_id, entries |-> entries]

\* an HTTP response: the route that answered, the status and what it carries
Respond(route, status, body) == [route |-> route, status |-> status, body |-> body]

\* the request of a client: pc is the statement its handler runs next
\* ("idle" when the client has no request in flight), the other fields are
\* the local variables of the handlers, at their empty values here
NoRequest ==
  [pc |-> "idle", user |-> 0, habit_id |-> 0, streak |-> 0, date |-> 0,
   username |-> "", password |-> 0,
   total_habits |-> 0, total_entries |-> 0,
   dates |-> <<>>,
   completion_rate |-> completion_rate(<<>>, 0),
   daily_data |-> daily_counts(<<>>, 0)]

\* User.query.filter_by(username=username).first(), 0 for None
UserByName(username) ==
  IF \E u \in DOMAIN users : users[u].username = username
  THEN CHOOSE u \in DOMAIN users : users[u].username = username
  ELSE 0

\* current_user.id in a request of client c, 0 for the anonymous user
current_user(c) == session[c]

\* current_user.is_authenticated
is_authenticated(c) == current_user(c) # 0

\* the first tick of the clock in the initial states of the application
StartDay == 422
StartTick == StartDay * TicksPerDay

RECURSIVE NewEntries(_)
\* how many entries of the habits hs are dated StartTick or later
NewEntries(hs) ==
  IF hs = <<>> THEN 0
  ELSE Cardinality({i \in DOMAIN Head(hs).entries : Head(hs).entries[i] >= StartTick})
       + NewEntries(Tail(hs))

RECURSIVE EntryCount(_, _)
\* HabitEntry.query.join(Habit).filter(Habit.user_id == user_id).count()
EntryCount(hs, user_id) ==
  IF hs = <<>> THEN 0
  ELSE (IF Head(hs).user_id = user_id THEN Len(Head(hs).entries) ELSE 0)
       + EntryCount(Tail(hs), user_id)

\* len(Badge.query.filter_by(user_id=user_id).all())
total_badges(bs, user_id) ==
  Cardinality({i \in DOMAIN bs : bs[i].user_id = user_id})

\* the handler of client c returns response r
Return(c, r) ==
  /\ response' = r
  /\ req' = [req EXCEPT ![c] = NoRequest]

(****************************** actions ************************************)
\* datetime.utcnow() advances; the clock is followed for MaxTicks ticks
\* from StartTick
Tick ==
  /\ now >= StartTick
  /\ now < StartTick + MaxTicks
  /\ now' = now + 1
  /\ UNCHANGED <<users, session, habits, badges, req, response>>

\* GET /
index(c) ==
  /\ req[c].pc = "idle"
  /\ response' =
       IF ~is_authenticated(c) THEN Respond("index", 302, "login")
       ELSE Respond("index", 200,
                    {h \in DOMAIN habits : habits[h].user_id = current_user(c)})
  /\ UNCHANGED <<users, session, habits, badges, now, req>>

\* POST /add_habit
add_habit(c) ==
  /\ req[c].pc = "idle"
  /\ is_authenticated(c) => Len(habits) < MaxHabits
  /\ IF ~is_authenticated(c)
     THEN /\ response' = Respond("add_habit", 302, "login")
          /\ UNCHANGED habits
     ELSE /\ habits' = Append(habits, Habit(current_user(c), <<>>))
          /\ response' = Respond("add_habit", 302, "index")
  /\ UNCHANGED <<users, session, badges, now, req>>

\* the entries that requests in flight have dated and not yet committed
PendingEntries == Cardinality({c \in Clients : req[c].pc = "log_entry_commit"})

\* POST /log_entry/<habit_id>, up to the flush of the new entry: the column
\* default datetime.utcnow (line 65) gives the row its date before the row
\* is inserted
log_entry(c, habit_id) ==
  /\ req[c].pc = "idle"
  /\ (habit_id \in DOMAIN habits /\ habits[habit_id].user_id = current_user(c))
       => (now >= StartTick /\ NewEntries(habits) + PendingEntries < MaxNewEntries)
  /\ IF ~is_authenticated(c)
     THEN /\ response' = Respond("log_entry", 302, "login")
          /\ UNCHANGED <<habits, req>>
     ELSE IF habit_id \notin DOMAIN habits
     THEN /\ response' = Respond("log_entry", 404, "Not Found")
          /\ UNCHANGED <<habits, req>>
     ELSE IF habits[habit_id].user_id # current_user(c)
     THEN /\ response' = Respond("log_entry", 403, "Unauthorized")
          /\ UNCHANGED <<habits, req>>
     ELSE /\ req' = [req EXCEPT ![c] =
                       [NoRequest EXCEPT !.pc = "log_entry_commit",
                                         !.user = current_user(c),
                                         !.habit_id = habit_id,
                                         !.date = now]]
          /\ UNCHANGED <<habits, response>>
  /\ UNCHANGED <<users, session, badges, now>>

\* log_entry: the INSERT of the dated row and the end of the first commit
\* (line 107); rows are returned in the order they were inserted
log_entry_commit(c) ==
  /\ req[c].pc = "log_entry_commit"
  /\ habits' = [habits EXCEPT ![req[c].habit_id].entries = Append(@, req[c].date)]
  /\ req' = [req EXCEPT ![c].pc = "log_entry_streak"]
  /\ UNCHANGED <<users, session, badges, now, response>>

\* log_entry: streak = habit.current_streak, which loads the entries the
\* habit has by now, and the choice of the badge; with no badge to add the
\* last commit writes nothing and the handler returns
log_entry_streak(c) ==
  /\ req[c].pc = "log_entry_streak"
  /\ LET streak == current_streak(habits[req[c].habit_id].entries)
     IN  IF StreakBadges(streak, req[c].user) = <<>>
         THEN Return(c, Respond("log_entry", 302, "index"))
         ELSE /\ req' = [req EXCEPT ![c].pc = "log_entry_badge",
                                    ![c].streak = streak]
              /\ UNCHANGED response
  /\ UNCHANGED <<users, session, habits, badges, now>>

\* the commit of the badge behind a check for a badge of that name already
\* held, which the handler does not make
log_entry_badge_once(c) ==
  /\ req[c].pc = "log_entry_badge"
  /\ badges' =
       IF BadgeCount(badges, req[c].user,
                     Head(StreakBadges(req[c].streak, req[c].user)).name) # 0
       THEN badges
       ELSE badges \o StreakBadges(req[c].streak, req[c].user)
  /\ Return(c, Respond("log_entry", 302, "index"))
  /\ UNCHANGED <<users, session, habits, now>>

\* log_entry: the commit of the badge
log_entry_badge(c) ==
  /\ req[c].pc = "log_entry_badge"
  /\ badges' = badges \o StreakBadges(req[c].streak, req[c].user)
  /\ Return(c, Respond("log_entry", 302, "index"))
  /\ UNCHANGED <<users, session, habits, now>>

\* GET /predict/<habit_id>, up to the fit of the model: the entries are read
\* once (line 128) and the two sentinels are returned at once
predict_success(c, habit_id) ==
  /\ req[c].pc = "idle"
  /\ IF ~is_authenticated(c)
     THEN response' = Respond("predict", 302, "login") /\ UNCHANGED req
     ELSE IF habit_id \notin DOMAIN habits
     THEN response' = Respond("predict", 404, "Not Found") /\ UNCHANGED req
     ELSE IF habits[habit_id].user_id # current_user(c)
     THEN response' = Respond("predict", 403, "Unauthorized") /\ UNCHANGED req
     ELSE LET dates == habits[habit_id].entries
              outcome == predict_outcome(dates)
          IN  CASE outcome = "need_more_data" ->
                     /\ response' = Respond("predict", 200,
                          [habit |-> habit_id, kind |-> "sentinel",
                           prediction |-> "Need more data (at least 7 days)"])
                     /\ UNCHANGED req
                [] outcome = "need_consecutive_data" ->
                     /\ response' = Respond("predict", 200,
                          [habit |-> habit_id, kind |-> "sentinel",
                           prediction |-> "Need more consecutive data"])
                     /\ UNCHANGED req
                [] OTHER ->
                     /\ req' = [req EXCEPT ![c] =
                                  [NoRequest EXCEPT !.pc = "predict_success_proba",
                                                    !.user = current_user(c),
                                                    !.habit_id = habit_id,
                                                    !.dates = dates]]
                     /\ UNCHANGED response
  /\ UNCHANGED <<users, session, habits, badges, now>>

\* predict_success: latest_streak = habit.current_streak, which loads the
\* entries again, and predict_proba on the fitted model.  The fit saw
\* the entries read at line 128; the streak read here is a coordinate of the
\* query row only, so it changes neither whether [0][1] exists nor the set
\* of values predict_proba may return
predict_success_proba(c) ==
  /\ req[c].pc = "predict_success_proba"
  /\ LET outcome == predict_outcome(req[c].dates)
         latest_streak == current_streak(habits[req[c].habit_id].entries)
     IN  IF outcome = "probability"
         THEN \E p \in Percentages :
                 Return(c, Respond("predict", 200,
                    [habit |-> req[c].habit_id, kind |-> "percentage",
                     prediction |-> p]))
         ELSE Return(c, Respond("predict", 500,
                    [habit |-> req[c].habit_id, kind |-> "error",
                     prediction |-> "IndexError"]))
  /\ UNCHANGED <<users, session, habits, badges, now>>

\* GET /analytics/<habit_id>, up to the query of the entries (line 182)
analytics(c, habit_id) ==
  /\ req[c].pc = "idle"
  /\ IF ~is_authenticated(c)
     THEN response' = Respond("analytics", 302, "login") /\ UNCHANGED req
     ELSE IF habit_id \notin DOMAIN habits
     THEN response' = Respond("analytics", 404, "Not Found") /\ UNCHANGED req
     ELSE IF habits[habit_id].user_id # current_user(c)
     THEN response' = Respond("analytics", 403, "Unauthorized") /\ UNCHANGED req
     ELSE LET dates == habits[habit_id].entries
          IN  /\ req' = [req EXCEPT ![c] =
                           [NoRequest EXCEPT !.pc = "analytics_streak",
                                             !.user = current_user(c),
                                             !.habit_id = habit_id,
                                             !.dates = dates,
                                             !.total_entries = Len(dates)]]
              /\ UNCHANGED response
  /\ UNCHANGED <<users, session, habits, badges, now>>

\* analytics: current_streak = habit.current_streak, which loads the entries
\* the habit has by now (line 187)
analytics_streak(c) ==
  /\ req[c].pc = "analytics_streak"
  /\ req' = [req EXCEPT ![c].pc = "analytics_rate",
                        ![c].streak = current_streak(habits[req[c].habit_id].entries)]
  /\ UNCHANGED <<users, session, habits, badges, now, response>>

\* analytics: the completion rate at the first reading of the clock
\* (lines 190-192)
analytics_rate(c) ==
  /\ req[c].pc = "analytics_rate"
  /\ req' = [req EXCEPT ![c].pc = "analytics_daily",
                        ![c].completion_rate = completion_rate(req[c].dates, now)]
  /\ UNCHANGED <<users, session, habits, badges, now, response>>

\* analytics: the daily chart at the second reading of the clock
\* (lines 195-197)
analytics_daily(c) ==
  /\ req[c].pc = "analytics_daily"
  /\ req' = [req EXCEPT ![c].pc = "analytics_weekly",
                        ![c].daily_data = daily_counts(req[c].dates, now)]
  /\ UNCHANGED <<users, session, habits, badges, now, response>>

\* analytics: the weekly chart at the third reading of the clock
\* (lines 200-203) and the page
analytics_weekly(c) ==
  /\ req[c].pc = "analytics_weekly"
  /\ Return(c, Respond("analytics", 200,
                 [habit |-> req[c].habit_id,
                  total_entries |-> req[c].total_entries,
                  current_streak |-> req[c].streak,
                  completion_rate |-> req[c].completion_rate,
                  daily_data |-> req[c].daily_data,
                  weekly_data |-> weekly_counts(req[c].dates, now)]))
  /\ UNCHANGED <<users, session, habits, badges, now>>

\* GET /profile, up to the count of the habits (line 236)
profile(c) ==
  /\ req[c].pc = "idle"
  /\ IF ~is_authenticated(c)
     THEN /\ response' = Respond("profile", 302, "login")
          /\ UNCHANGED req
     ELSE /\ req' = [req EXCEPT ![c] =
                       [NoRequest EXCEPT
                          !.pc = "profile_entries",
                          !.user = current_user(c),
                          !.total_habits =
                             Cardinality({h \in DOMAIN habits :
                                            habits[h].user_id = current_user(c)})]]
          /\ UNCHANGED response
  /\ UNCHANGED <<users, session, habits, badges, now>>

\* profile: the count of the entries (line 239)
profile_entries(c) ==
  /\ req[c].pc = "profile_entries"
  /\ req' = [req EXCEPT ![c].pc = "profile_award_query",
                        ![c].total_entries = EntryCount(habits, req[c].user)]
  /\ UNCHANGED <<users, session, habits, badges, now, response>>

\* profile: the query of award_welcome_badge(current_user) (line 221)
profile_award_query(c) ==
  /\ req[c].pc = "profile_award_query"
  /\ req' = [req EXCEPT ![c].pc =
               IF BadgeCount(badges, req[c].user, "Welcome!") # 0
               THEN "profile_badges" ELSE "profile_award"]
  /\ UNCHANGED <<users, session, habits, badges, now, response>>

\* profile: award_welcome_badge found no badge and commits one
\* (lines 223-229)
profile_award(c) ==
  /\ req[c].pc = "profile_award"
  /\ badges' = Append(badges, Badge("Welcome!", req[c].user))
  /\ req' = [req EXCEPT ![c].pc = "profile_badges"]
  /\ UNCHANGED <<users, session, habits, now, response>>

\* profile: the list of the badges (line 245) and the page
profile_badges(c) ==
  /\ req[c].pc = "profile_badges"
  /\ Return(c, Respond("profile", 200,
                  [user |-> req[c].user,
                   total_habits |-> req[c].total_habits,
                   total_entries |-> req[c].total_entries,
                   total_badges |-> total_badges(badges, req[c].user)]))
  /\ UNCHANGED <<users, session, habits, badges, now>>

\* GET or POST /login
login(c, method, username, password) ==
  /\ req[c].pc = "idle"
  /\ IF is_authenticated(c)
     THEN /\ response' = Respond("login", 302, "index")
          /\ UNCHANGED session
     ELSE IF method = "POST"
     THEN LET user == UserByName(username)
          IN  IF user # 0 /\ check_password_hash(users[user].password_hash, password)
              THEN /\ session' = [session EXCEPT ![c] = user]
                   /\ response' = Respond("login", 302, "index")
              ELSE /\ response' = Respond("login", 200, "Invalid username or password")
                   /\ UNCHANGED session
     ELSE /\ response' = Respond("login", 200, "auth.html")
          /\ UNCHANGED session
  /\ UNCHANGED <<users, habits, badges, now, req>>

\* GET or POST /register, up to the checks of the form
register(c, method, username, password, confirm_password) ==
  /\ req[c].pc = "idle"
  /\ IF is_authenticated(c)
     THEN /\ response' = Respond("register", 302, "index")
          /\ UNCHANGED req
     ELSE IF method = "POST"
     THEN IF UserByName(username) # 0
          THEN /\ response' = Respond("register", 302, "register")
               /\ UNCHANGED req
          ELSE IF password # confirm_password
          THEN /\ response' = Respond("register", 302, "register")
               /\ UNCHANGED req
          ELSE /\ req' = [req EXCEPT ![c] =
                            [NoRequest EXCEPT !.pc = "register_commit",
                                              !.username = username,
                                              !.password = password]]
               /\ UNCHANGED response
     ELSE /\ response' = Respond("register", 200, "auth.html")
          /\ UNCHANGED req
  /\ UNCHANGED <<users, session, habits, badges, now>>

\* register: the commit of the User row; username is unique, so the commit
\* fails with IntegrityError when the name was taken since the check
register_commit(c) ==
  /\ req[c].pc = "register_commit"
  /\ IF UserByName(req[c].username) # 0
     THEN /\ Return(c, Respond("register", 500, "IntegrityError"))
          /\ UNCHANGED users
     ELSE /\ users' = Append(users, User(req[c].username, req[c].password))
          /\ req' = [req EXCEPT ![c].pc = "register_award_query",
                                ![c].user = Len(users) + 1]
          /\ UNCHANGED response
  /\ UNCHANGED <<session, habits, badges, now>>

\* register: the query of award_welcome_badge(user)
register_award_query(c) ==
  /\ req[c].pc = "register_award_query"
  /\ IF BadgeCount(badges, req[c].user, "Welcome!") # 0
     THEN Return(c, Respond("register", 302, "login"))
     ELSE /\ req' = [req EXCEPT ![c].pc = "register_award"]
          /\ UNCHANGED response
  /\ UNCHANGED <<users, session, habits, badges, now>>

\* register: award_welcome_badge found no badge and commits one
register_award(c) ==
  /\ req[c].pc = "register_award"
  /\ badges' = Append(badges, Badge("Welcome!", req[c].user))
  /\ Return(c, Respond("register", 302, "login"))
  /\ UNCHANGED <<users, session, habits, now>>

\* GET /logout
logout(c) ==
  /\ req[c].pc = "idle"
  /\ IF ~is_authenticated(c)
     THEN /\ response' = Respond("logout", 302, "login")
          /\ UNCHANGED session
     ELSE /\ session' = [session EXCEPT ![c] = 0]
          /\ response' = Respond("logout", 302, "login")
  /\ UNCHANGED <<users, habits, badges, now, req>>

(************************** initial states *********************************)
RECURSIVE ReplayBadges(_, _, _)
\* the streak badges that log_entry requests served one after the other
\* gave while they built entries[1..n]
ReplayBadges(entries, n, user_id) ==
  IF n = 0 THEN <<>>
  ELSE ReplayBadges(entries, n - 1, user_id)
       \o StreakBadges(current_streak(SubSeq(entries, 1, n)), user_id)

RECURSIVE HistoryBadges(_)
\* the streak badges of a list of habits built by such requests
HistoryBadges(hs) ==
  IF hs = <<>> THEN <<>>
  ELSE ReplayBadges(Head(hs).entries, Len(Head(hs).entries), Head(hs).user_id)
       \o HistoryBadges(Tail(hs))

\* r entries, one a day at time of day p, on the r days before day today
Run(r, p, today) == [i \in 1 .. r |-> (today - r + i - 1) * TicksPerDay + p]

TimesOfDay == 0 .. (TicksPerDay - 1)

\* a run of WeekStreak days, a day without an entry, then a run one entry
\* short of WeekStreak
BrokenRun(p, today) ==
  Run(WeekStreak, p, today - WeekStreak) \o Run(WeekStreak - 1, p, today)

\* the habit tables of a young database: empty, or one habit of user 1 with
\* an entry at the start of each of the WeekStreak - 1 days before StartDay
PresetHabits ==
  {<<>>, <<Habit(1, Run(WeekStreak - 1, 0, StartDay))>>}

\* user "a" has registered, viewed the profile and logged entries on the
\* days before StartDay; nobody is logged in and no request is in flight
Init ==
  /\ users = <<User("a", 1)>>
  /\ session = [c \in Clients |-> 0]
  /\ now = StartTick
  /\ habits \in PresetHabits
  /\ badges = <<Badge("Welcome!", 1)>> \o HistoryBadges(habits)
  /\ req = [c \in Clients |-> NoRequest]
  /\ response = Respond("none", 0, "")

Next ==
  \/ Tick
  \/ \E c \in Clients : index(c)
  \/ \E c \in Clients : add_habit(c)
  \/ \E c \in Clients, habit_id \in HabitIds : log_entry(c, habit_id)
  \/ \E c \in Clients : log_entry_commit(c)
  \/ \E c \in Clients : log_entry_streak(c)
  \/ \E c \in Clients : log_entry_badge(c)
  \/ \E c \in Clients, habit_id \in HabitIds : predict_success(c, habit_id)
  \/ \E c \in Clients : predict_success_proba(c)
  \/ \E c \in Clients, habit_id \in HabitIds : analytics(c, habit_id)
  \/ \E c \in Clients : analytics_streak(c)
  \/ \E c \in Clients : analytics_rate(c)
  \/ \E c \in Clients : analytics_daily(c)
  \/ \E c \in Clients : analytics_weekly(c)
  \/ \E c \in Clients : profile(c)
  \/ \E c \in Clients : profile_entries(c)
  \/ \E c \in Clients : profile_award_query(c)
  \/ \E c \in Clients : profile_award(c)
  \/ \E c \in Clients : profile_badges(c)
  \/ \E c \in Clients, m \in Methods, u \in Usernames, p \in Passwords :
        login(c, m, u, p)
  \/ \E c \in Clients, m \in Methods, u \in Usernames, p \in NewPasswords,
        cp \in Passwords : register(c, m, u, p, cp)
  \/ \E c \in Clients : register_commit(c)
  \/ \E c \in Clients : register_award_query(c)
  \/ \E c \in Clients : register_award(c)
  \/ \E c \in Clients : logout(c)

\* the whole application; the properties below are stated over its parts,
\* each with the requests that write or read the rows the property is about
Spec == Init /\ [][Next]_vars

(********************* accounts, sessions and profiles *********************)
\* the requests that write users, sessions and "Welcome!" badges, the pages
\* that list and count the rows of a user, and the requests that add the rows
\* they count
NextAccounts ==
  \/ \E c \in Clients : index(c)
  \/ \E c \in Clients : add_habit(c)
  \/ \E c \in Clients, habit_id \in HabitIds : log_entry(c, habit_id)
  \/ \E c \in Clients : log_entry_commit(c)
  \/ \E c \in Clients : log_entry_streak(c)
  \/ \E c \in Clients : log_entry_badge(c)
  \/ \E c \in Clients : profile(c)
  \/ \E c \in Clients : profile_entries(c)
  \/ \E c \in Clients : profile_award_query(c)
  \/ \E c \in Clients : profile_award(c)
  \/ \E c \in Clients : profile_badges(c)
  \/ \E c \in Clients, m \in Methods, u \in Usernames, p \in Passwords :
        login(c, m, u, p)
  \/ \E c \in Clients, m \in Methods, u \in Usernames, p \in NewPasswords,
        cp \in Passwords : register(c, m, u, p, cp)
  \/ \E c \in Clients : register_commit(c)
  \/ \E c \in Clients : register_award_query(c)
  \/ \E c \in Clients : register_award(c)
  \/ \E c \in Clients : logout(c)

SpecAccounts == Init /\ [][NextAccounts]_vars

(******************* the streak badges of long histories *******************)
\* the habit tables of an older database: one habit of user 1 with a run of
\* daily entries ending the day before StartDay, unbroken or broken once, or,
\* where the table has room for them, two habits one entry short of "Week
\* Warrior"
LongHabits ==
  {<<Habit(1, Run(r, p, StartDay))>> :
           r \in {WeekStreak - 1, WeekStreak, MonthStreak - 1},
           p \in {0, TicksPerDay - 1}}
  \cup {<<Habit(1, BrokenRun(p, StartDay))>> : p \in {0, TicksPerDay - 1}}
  \cup {<<Habit(1, Run(WeekStreak - 1, p, StartDay)),
           Habit(1, Run(WeekStreak - 1, p, StartDay))>> :
           p \in {q \in {0, TicksPerDay - 1} : MaxHabits >= 2}}

\* user "a" is logged in at the first client, and at the second or not
InitStreaks ==
  /\ users = <<User("a", 1)>>
  /\ session \in {[c \in Clients |-> 1], [c \in Clients |-> IF c = 1 THEN 1 ELSE 0]}
  /\ now = StartTick
  /\ habits \in LongHabits
  /\ badges = <<Badge("Welcome!", 1)>> \o HistoryBadges(habits)
  /\ req = [c \in Clients |-> NoRequest]
  /\ response = Respond("none", 0, "")

\* the requests that write habits, entries and streak badges
NextStreaks ==
  \/ Tick
  \/ \E c \in Clients : add_habit(c)
  \/ \E c \in Clients, habit_id \in HabitIds : log_entry(c, habit_id)
  \/ \E c \in Clients : log_entry_commit(c)
  \/ \E c \in Clients : log_entry_streak(c)
  \/ \E c \in Clients : log_entry_badge(c)

SpecStreaks == InitStreaks /\ [][NextStreaks]_vars

(************ the handlers that read entries, and their writer *************)
\* the entry lists of at most MaxLen entries, in the order they were logged,
\* on the MaxBack days before the day of t and on that day up to t
SmallLists(t) ==
  UNION {{s \in [1 .. n -> ((DateOf(t) - MaxBack) * TicksPerDay) .. t] :
            \A i \in 1 .. (n - 1) : s[i] <= s[i+1]} : n \in 0 .. MaxLen}

\* n entries, one a day, ending on day today, with one day skipped after
\* the first g entries when g > 0; the first entry is logged at time of day
\* p1, the last at pn, the others at pm
GapRun(n, g, p1, pm, pn, today) ==
  [i \in 1 .. n |->
     (today - (n - i) - (IF i <= g THEN 1 ELSE 0)) * TicksPerDay
       + (IF i = n THEN pn ELSE IF i = 1 THEN p1 ELSE pm)]

\* the lengths of the short daily runs, around MinEntries
RunLens == (MinEntries - 3) .. (MinEntries + 1)

\* the short daily runs ending on the day of t with its last entry at t or
\* before: they keep one time of day and skip no day, the day after the
\* first entry or the day before the last
GapRuns(t) ==
  {GapRun(n, g, p, p, p, DateOf(t)) :
     <<n, g>> \in {ng \in RunLens \X (0 .. MinEntries) :
                     ng[2] \in {0, 1, ng[1] - 1}},
     p \in 0 .. (t % TicksPerDay)}

\* the runs of RateDays + 1 entries ending on the day of t with its last
\* entry at t or before, one entry a day at any times of day
MonthRuns(t) ==
  {GapRun(RateDays + 1, 0, p1, pm, pn, DateOf(t)) :
     <<p1, pm, pn>> \in {q \in TimesOfDay \X TimesOfDay \X TimesOfDay :
                            q[3] <= t % TicksPerDay}}

\* how many weeks before the current one the entries of WeekLists lie
WeekOffsets == {0, 1, WeekBuckets - 1, WeekBuckets}

RECURSIVE WeekList(_, _, _)
\* one entry at t minus k weeks for each k in offs that is at most kmax,
\* the oldest first
WeekList(t, offs, kmax) ==
  IF kmax < 0 THEN <<>>
  ELSE (IF kmax \in offs THEN <<t - timedelta(7 * kmax)>> ELSE <<>>)
       \o WeekList(t, offs, kmax - 1)

\* the Thursdays of the weeks 7 to 59 after day 0: every ISO week number
\* from 1 to 53 is the current week of one of them
Thursdays == {(7 * w + 3) * TicksPerDay : w \in 7 .. 59}

\* user "a" is logged in at both clients and owns one habit.  Before
\* StartTick, where the clock is not followed and nothing is logged, its
\* entries are a short free list, one entry in some of the last weeks or a
\* run of RateDays + 1 days; at StartTick they are a short daily run ending
\* that day or the day before
InitEntries ==
  /\ users = <<User("a", 1)>>
  /\ session = [c \in Clients |-> 1]
  /\ \/ /\ now = StartTick - 1
        /\ \E s \in SmallLists(now) : habits = <<Habit(1, s)>>
     \/ /\ now \in Thursdays
        /\ \E offs \in SUBSET WeekOffsets :
              habits = <<Habit(1, WeekList(now, offs, WeekBuckets))>>
     \/ /\ now \in (StartTick - TicksPerDay) .. (StartTick - 1)
        /\ \E s \in MonthRuns(now) : habits = <<Habit(1, s)>>
     \/ /\ now = StartTick
        /\ \/ \E s \in GapRuns(now) : habits = <<Habit(1, s)>>
           \/ \E p \in TimesOfDay :
                 habits = <<Habit(1, Run(WeekStreak - 1, p, StartDay))>>
  /\ badges = <<Badge("Welcome!", 1)>> \o HistoryBadges(habits)
  /\ req = [c \in Clients |-> NoRequest]
  /\ response = Respond("none", 0, "")

\* the client that sends the analytics and predict requests, and the client
\* that sends the log_entry requests meanwhile: two reading requests have no
\* effect on each other, and two writing ones are those of SpecStreaks
Readers == {1}
Writers == {2}

\* analytics and predict_success, served while log_entry requests add
\* entries and the clock advances
NextEntries ==
  \/ Tick
  \/ \E c \in Writers, habit_id \in HabitIds : log_entry(c, habit_id)
  \/ \E c \in Writers : log_entry_commit(c)
  \/ \E c \in Writers : log_entry_streak(c)
  \/ \E c \in Writers : log_entry_badge(c)
  \/ \E c \in Readers, habit_id \in HabitIds : predict_success(c, habit_id)
  \/ \E c \in Readers : predict_success_proba(c)
  \/ \E c \in Readers, habit_id \in HabitIds : analytics(c, habit_id)
  \/ \E c \in Readers : analytics_streak(c)
  \/ \E c \in Readers : analytics_rate(c)
  \/ \E c \in Readers : analytics_daily(c)
  \/ \E c \in Readers : analytics_weekly(c)

SpecEntries == InitEntries /\ [][NextEntries]_vars

(***************************** properties **********************************)
\* predict has answered for habit h, with a result or a server error
PredictOf(h) ==
  /\ response.route = "predict"
  /\ response.status \in {200, 500}
  /\ response.body.habit = h

\* k is 0 for the empty list s and otherwise 1 plus the number of leading
\* adjacent pairs of s a day apart: the pairs before position k are a day
\* apart and the pair at position k, if there is one, is not
IsStreakOf(s, k) ==
  IF s = <<>> THEN k = 0
  ELSE /\ k \in 1 .. Len(s)
       /\ \A i \in 1 .. (k - 1) : Days(s[i] - s[i+1]) = 1
       /\ k < Len(s) => Days(s[k] - s[k+1]) # 1

\* the step of an analytics request that takes the streak: the streak is that
\* of the entries the habit has at that moment
C1_StreakStep ==
  \A c \in Clients :
    (req[c].pc = "analytics_streak" /\ req'[c].pc # "analytics_streak") =>
      LET s == SortedDesc(habits[req[c].habit_id].entries)
          k == req'[c].streak
      IN  /\ IsStreakOf(s, k)
          /\ Len(s) = 1 => k = 1
          /\ (Len(s) >= 2 /\ \A i \in DOMAIN s : DateOf(s[i]) = DateOf(s[1])) => k = 1
          /\ (/\ Len(s) = 3
              /\ s[2] = s[1] - timedelta(1)
              /\ s[3] = s[1] - timedelta(3)) => k = 2

\* the step of an analytics request that answers: it reports the streak taken
C1_ReportStep ==
  \A c \in Clients :
    (req[c].pc = "analytics_weekly" /\ req'[c].pc # "analytics_weekly") =>
      /\ response'.route = "analytics"
      /\ response'.status = 200
      /\ response'.body.habit = req[c].habit_id
      /\ response'.body.current_streak = req[c].streak

\* C1: the streak analytics reports for a habit is 0 for no entries and
\* otherwise 1 plus the number of leading adjacent pairs, in the entries
\* sorted by date descending, whose difference is exactly one day, stopping at
\* the first other pair; a single entry gives 1, entries of one day give 1,
\* and entries at D, D minus 1 day and D minus 3 days give 2.
C1_StreakRule == [][C1_StreakStep /\ C1_ReportStep]_vars

\* an analytics request has taken streak 2 for entries at D, D minus 1 day,
\* D minus 3 days
C1_Witness ==
  \E c \in Clients :
    /\ req[c].pc = "analytics_rate"
    /\ req[c].streak = 2
    /\ LET entries == habits[req[c].habit_id].entries
       IN  /\ Len(entries) = 3
           /\ entries[2] = entries[3] - timedelta(1)
           /\ entries[1] = entries[3] - timedelta(3)
           /\ entries[3] % TicksPerDay = 1

\* C2: for a habit with exactly one entry on each of three consecutive
\* calendar days, the streak analytics takes is 3 whatever the times of day
\* of the entries.
C2_CalendarDays ==
  [][\A c \in Clients :
       (/\ req[c].pc = "analytics_streak"
        /\ req'[c].pc # "analytics_streak"
        /\ Len(habits[req[c].habit_id].entries) = 3
        /\ LET s == SortedDesc(habits[req[c].habit_id].entries)
           IN  /\ DateOf(s[2]) = DateOf(s[1]) - 1
               /\ DateOf(s[3]) = DateOf(s[1]) - 2)
       => req'[c].streak = 3]_vars

\* the rows a log_entry request that sees streak st adds for user owner
ClaimedGrant(st, owner) ==
  IF st = 7 THEN <<[name |-> "Week Warrior", user_id |-> owner]>>
  ELSE IF st = 30 THEN <<[name |-> "Monthly Master", user_id |-> owner]>>
  ELSE <<>>

\* a request that starts in the handler of log_entry is a request of the
\* owner of its habit, reads the clock for the date of its entry and goes on
\* to commit it
C3_RequestStep ==
  \A c \in Clients :
    (req[c].pc = "idle" /\ req'[c].pc \in {"log_entry_commit", "log_entry_streak", "log_entry_badge"}) =>
      /\ req'[c].pc = "log_entry_commit"
      /\ req'[c].habit_id \in DOMAIN habits
      /\ req'[c].user = session[c]
      /\ req'[c].user = habits[req'[c].habit_id].user_id
      /\ req'[c].date = now
      /\ habits' = habits
      /\ badges' = badges

\* a request at its commit records its entry and goes on to read the streak
C3_CommitStep ==
  \A c \in Clients :
    (req[c].pc = "log_entry_commit" /\ req'[c] # req[c]) =>
      /\ req'[c].pc = "log_entry_streak"
      /\ habits'[req[c].habit_id].entries
           = Append(habits[req[c].habit_id].entries, req[c].date)

\* a step that changes the entries of a habit is the commit of one log_entry
\* request of the owner: it appends the one entry of that request, dated by
\* the clock the request read, to that habit, changes no other habit and no
\* badge
C3_EntryStep ==
  \A h \in DOMAIN habits :
    habits'[h].entries # habits[h].entries =>
      /\ \A g \in DOMAIN habits \ {h} : habits'[g] = habits[g]
      /\ badges' = badges
      /\ \E c \in Clients :
            /\ req[c].pc = "log_entry_commit"
            /\ req[c].habit_id = h
            /\ req[c].user = habits[h].user_id
            /\ req[c].date <= now
            /\ habits'[h].entries = Append(habits[h].entries, req[c].date)
            /\ req'[c].pc = "log_entry_streak"
            /\ \A d \in Clients \ {c} : req'[d] = req[d]

\* the request then reads the streak of all entries the habit has, its own
\* among them, and goes on to add a badge exactly when the streak is 7 or 30
C3_StreakStep ==
  \A c \in Clients :
    (req[c].pc = "log_entry_streak" /\ req'[c] # req[c]) =>
      LET entries == habits[req[c].habit_id].entries
          st == current_streak(entries)
      IN  /\ Len(entries) >= 1
          /\ req[c].user = habits[req[c].habit_id].user_id
          /\ habits' = habits
          /\ badges' = badges
          /\ IF st \in {7, 30}
             THEN req'[c].pc = "log_entry_badge" /\ req'[c].streak = st
             ELSE req'[c].pc = "idle"

\* a step that changes the badges is the last step of a log_entry request
\* that read streak 7 or 30 and adds the one badge of that streak for the
\* owner, or it adds a "Welcome!" badge
C3_BadgeStep ==
  badges' # badges =>
    \/ \E c \in Clients :
          /\ req[c].pc = "log_entry_badge"
          /\ req[c].streak \in {7, 30}
          /\ req'[c].pc = "idle"
          /\ badges' = badges \o ClaimedGrant(req[c].streak, req[c].user)
    \/ \E u \in DOMAIN users :
          badges' = Append(badges, [name |-> "Welcome!", user_id |-> u])

\* a request that read streak 7 or 30 does add its badge
C3_GrantStep ==
  \A c \in Clients :
    (req[c].pc = "log_entry_badge" /\ req'[c] # req[c]) =>
      /\ req'[c].pc = "idle"
      /\ badges' = badges \o ClaimedGrant(req[c].streak, req[c].user)

\* C3: every log_entry request that records an entry records exactly one,
\* then computes the streak over all entries of the habit and adds one "Week
\* Warrior" badge for the owner if the streak is exactly 7, one "Monthly
\* Master" badge if it is exactly 30 and no badge otherwise, whether or not
\* the owner holds that badge already; no other request adds such a badge.
C3_LogEntryBadges ==
  [][/\ C3_RequestStep
     /\ C3_CommitStep
     /\ C3_EntryStep
     /\ C3_StreakStep
     /\ C3_BadgeStep
     /\ C3_GrantStep]_vars

\* two log_entry requests have each logged the 7th entry of a habit, read
\* streak 7 and returned, and their user holds "Week Warrior" twice
C3_Witness ==
  /\ response.route = "log_entry"
  /\ response.status = 302
  /\ response.body = "index"
  /\ \A c \in Clients : req[c].pc = "idle"
  /\ Len(habits) = 2
  /\ \A h \in DOMAIN habits :
        /\ Len(habits[h].entries) = 7
        /\ habits[h].entries[7] >= StartTick
        /\ habits[h].entries[6] < StartTick
  /\ BadgeCount(badges, habits[1].user_id, "Week Warrior") = 2

\* C4: no user holds two Badge rows with the same name.
C4_NoDuplicateBadges ==
  \A i \in DOMAIN badges, j \in DOMAIN badges :
    (i # j /\ badges[i].user_id = badges[j].user_id)
      => badges[i].name # badges[j].name

\* the name of the badge of a streak
StreakBadgeName(st) ==
  IF st = 7 THEN "Week Warrior" ELSE IF st = 30 THEN "Monthly Master" ELSE "none"

\* a log_entry request that reads streak 7 or 30 goes on to add a record,
\* one that reads another streak returns
C4_ReadStep ==
  \A c \in Clients :
    (req[c].pc = "log_entry_streak" /\ req'[c].pc # "log_entry_streak") =>
      LET st == current_streak(habits[req[c].habit_id].entries)
      IN  IF st \in {7, 30}
          THEN req'[c].pc = "log_entry_badge" /\ req'[c].streak = st
          ELSE req'[c].pc = "idle"

\* in every step the records of a user with one of the two names grow by
\* one for every request of that user that read the streak of that name and
\* returns in the step, whatever the user holds already, and not otherwise
C4_GrantStep ==
  \A u \in DOMAIN users, n \in {"Week Warrior", "Monthly Master"} :
    BadgeCount(badges', u, n)
      = BadgeCount(badges, u, n)
        + Cardinality({c \in Clients :
                         /\ req[c].pc = "log_entry_badge"
                         /\ req'[c].pc # "log_entry_badge"
                         /\ req[c].user = u
                         /\ StreakBadgeName(req[c].streak) = n})

\* a user holds at most as many "Week Warrior" and "Monthly Master" records
\* as the habits of the user have entries, holds "Week Warrior" only with a
\* habit of at least 7 entries and "Monthly Master" only with one of at
\* least 30
C4_Bounds ==
  \A u \in DOMAIN users :
    /\ BadgeCount(badges, u, "Week Warrior") + BadgeCount(badges, u, "Monthly Master")
         <= EntryCount(habits, u)
    /\ BadgeCount(badges, u, "Week Warrior") > 0 =>
         \E h \in DOMAIN habits :
            habits[h].user_id = u /\ Len(habits[h].entries) >= 7
    /\ BadgeCount(badges, u, "Monthly Master") > 0 =>
         \E h \in DOMAIN habits :
            habits[h].user_id = u /\ Len(habits[h].entries) >= 30

\* C4 as amended: Badge rows can repeat for a user.  Every log_entry request
\* that reads streak 7 or 30 adds one "Week Warrior" or "Monthly Master" row
\* for the owner, also when the owner holds that badge already, and nothing
\* else adds such a row; so a user holds at most as many of them as the
\* habits of the user have entries, holds "Week Warrior" only with a habit of
\* at least 7 entries and "Monthly Master" only with a habit of at least 30.
C4_Amended == []C4_Bounds /\ [][C4_ReadStep /\ C4_GrantStep]_vars

\* a user with two habits holds "Week Warrior" twice, once for each habit:
\* both have reached streak 7 with an entry logged on or after StartDay
C4_Witness ==
  \E u \in DOMAIN users :
    /\ BadgeCount(badges, u, "Week Warrior") = 2
    /\ \E g \in DOMAIN habits, h \in DOMAIN habits :
          /\ g # h
          /\ habits[g].user_id = u /\ habits[h].user_id = u
          /\ current_streak(habits[g].entries) = 7
          /\ current_streak(habits[h].entries) = 7
          /\ NewEntries(<<habits[g]>>) = 1 /\ NewEntries(<<habits[h]>>) = 1

\* C5: every user holds at most one "Welcome!" badge, whatever register and
\* profile requests were served.
C5_OneWelcome ==
  \A u \in DOMAIN users : BadgeCount(badges, u, "Welcome!") <= 1

\* C6: predict on a habit with fewer than 7 entries answers with the
\* sentinel "Need more data (at least 7 days)", never with the other sentinel,
\* a probability or an error.  (Entries are never removed, so a habit that
\* has fewer than 7 now had fewer than 7 when predict read them.)
C6_FewEntries ==
  \A h \in DOMAIN habits :
    (PredictOf(h) /\ Len(habits[h].entries) < 7) =>
       /\ response.status = 200
       /\ response.body.kind = "sentinel"
       /\ response.body.prediction = "Need more data (at least 7 days)"

\* predict has answered with the sentinel for a habit with 6 entries
C6_Witness ==
  \E h \in DOMAIN habits :
    /\ PredictOf(h)
    /\ Len(habits[h].entries) = 6
    /\ response.body.kind = "sentinel"
    /\ response.body.prediction = "Need more data (at least 7 days)"

\* the habit has 7 entries, one on each of 7 consecutive calendar days
SevenConsecutiveDays(h) ==
  /\ Len(habits[h].entries) = 7
  /\ \A i \in 1 .. 6 :
        DateOf(habits[h].entries[i+1]) = DateOf(habits[h].entries[i]) + 1

\* once the requests that logged the 7 entries have returned, the streak is 7
\* and the owner holds "Week Warrior"
C7_StreakAndBadge ==
  \A h \in DOMAIN habits :
    (SevenConsecutiveDays(h) /\ \A c \in Clients : req[c].pc \notin {"log_entry_commit", "log_entry_streak", "log_entry_badge"}) =>
      /\ current_streak(habits[h].entries) = 7
      /\ BadgeCount(badges, habits[h].user_id, "Week Warrior") >= 1

\* a predict request that reads the 7 entries answers with a probability
C7_PredictStep ==
  \A h \in DOMAIN habits :
    (/\ SevenConsecutiveDays(h)
     /\ req' = req
     /\ now' = now
     /\ response'.route = "predict"
     /\ response'.status \in {200, 500}
     /\ response'.body.habit = h)
    => (response'.status = 200 /\ response'.body.kind = "percentage")

\* C7: for a habit with entries logged on 7 consecutive calendar days, once
\* the requests that logged them have returned, the streak is 7, the owner
\* holds "Week Warrior" and predict answers with a probability, not a
\* sentinel.
C7_EndToEnd == []C7_StreakAndBadge /\ [][C7_PredictStep]_vars

\* C8: for a habit with 31 entries, one on each of the last 31 calendar days
\* at any time of day, the completion rate analytics computes is exactly
\* 30/30.
C8_ExactlyOne ==
  [][\A c \in Clients :
       (/\ req[c].pc = "analytics_rate"
        /\ req'[c].pc # "analytics_rate"
        /\ Len(req[c].dates) = 31
        /\ \A i \in 1 .. 31 : DateOf(req[c].dates[i]) = DateOf(now) - (31 - i))
       => req'[c].completion_rate = [num |-> 30, den |-> 30]]_vars

\* C9: the weekly chart analytics answers with has 12 buckets, the ISO week
\* numbers of the current week and the 11 weeks before it, wrapping into
\* the previous year, and each bucket counts the entries read with that ISO
\* week number.
C9_TrailingWeeks ==
  [][\A c \in Clients :
       (req[c].pc = "analytics_weekly" /\ req'[c].pc # "analytics_weekly") =>
         LET weekly == response'.body.weekly_data
         IN  /\ DOMAIN weekly = {isoweek(now - timedelta(7 * i)) : i \in 0 .. 11}
             /\ Cardinality(DOMAIN weekly) = 12
             /\ \A w \in DOMAIN weekly :
                   weekly[w] = Cardinality({i \in DOMAIN req[c].dates :
                                              isoweek(req[c].dates[i]) = w})]_vars

\* the run of entries a day apart that ends at the last entry of week
RunEndingAtLast(week) ==
  CHOOSE k \in 0 .. Len(week) : IsStreakOf(SortedDesc(week), k)

\* C10: the streak feature predict computes for every window of 7 entries is
\* the length of the run of consecutive days that ends at the last entry of
\* the window.
C10_WindowStreak ==
  [][\A c \in Clients :
       (req[c].pc = "idle" /\ req'[c].pc = "predict_success_proba") =>
         \A i \in WindowStarts(req'[c].dates) :
            streak_data(req'[c].dates)[i].streak
              = RunEndingAtLast(week_entries(req'[c].dates, i))]_vars

====
